---- MODULE Spec2Model ----
(***************************************************************************)
(* State-machine model of the Victor DMM driver of libsigrok               *)
(* (src/hardware/victor-dmm/api.c): driver context, device registry,       *)
(* USB connection, acquisition limits, the asynchronous interrupt transfer *)
(* loop and the session feed.                                              *)
(*                                                                         *)
(* The host drives one Victor DMM; the bus also carries one foreign        *)
(* device.  The fields of the (single) device record are plain variables.  *)
(* All libusb pollfds are registered and removed together, so one          *)
(* representative fd stands for the list handle_events walks.  Pointers    *)
(* are kept by what they point to: a cb_data / user_data pointer is        *)
(* "live" or "stale" (its record was freed), a transfer's device handle is *)
(* the record's devhdl, a handle the record no longer refers to ("leaked") *)
(* or a closed one.                                                        *)
(***************************************************************************)
EXTENDS Integers, Sequences, FiniteSets, TLC

VARIABLES
    priv,           \* di->priv # NULL: the driver context exists
    instances,      \* drvc->instances: bus/address of each record
    status,         \* sdi->status
    devhdl,         \* devc->usb->devhdl # NULL
    leaked,         \* handles opened for the record, overwritten unclosed
    limit_msec,     \* devc->limit_msec
    limit_samples,  \* devc->limit_samples
    end_time,       \* devc->end_time
    num_samples,    \* devc->num_samples
    usbfd,          \* devc->usbfd holds the pollfds of the last start
    sources,        \* session sources of the libusb fd: cb_data of each entry
    xfers,          \* every libusb transfer allocated so far
    wild,           \* g_free() was handed a pointer that is no receive buffer
    feed,           \* packet types sent to the session bus
    now,            \* g_get_monotonic_time() / 1000
    undef           \* a freed device record was dereferenced

vars == <<priv, instances, status, devhdl, leaked, limit_msec, limit_samples,
          end_time, num_samples, usbfd, sources, xfers, wild, feed, now, undef>>

\* Bounds of the model.
MaxTime == 2
MaxXfers == 2
MaxLeaked == 1
MaxSamples == 2
MaxLimit == 1

\* Program constants.
VICTOR_VID == 4676
VICTOR_PID == 53815
PacketLen == 14

SR_ST_INACTIVE == "SR_ST_INACTIVE"
SR_ST_ACTIVE == "SR_ST_ACTIVE"
SR_ST_STOPPING == "SR_ST_STOPPING"

SR_OK == "SR_OK"
SR_ERR == "SR_ERR"
SR_ERR_ARG == "SR_ERR_ARG"
SR_ERR_MALLOC == "SR_ERR_MALLOC"

SR_HWCAP_LIMIT_MSEC == "SR_HWCAP_LIMIT_MSEC"
SR_HWCAP_LIMIT_SAMPLES == "SR_HWCAP_LIMIT_SAMPLES"
SR_HWCAP_CONTINUOUS == "SR_HWCAP_CONTINUOUS"

\* The capabilities a caller may pass to hw_dev_config_set.
HwCaps == {SR_HWCAP_LIMIT_MSEC, SR_HWCAP_LIMIT_SAMPLES, SR_HWCAP_CONTINUOUS}

\* The devices the USB bus may enumerate: the meter and a foreign device.
UsbDevices ==
    { [vid |-> VICTOR_VID, pid |-> VICTOR_PID, bus |-> 1, address |-> 1],
      [vid |-> VICTOR_VID, pid |-> 1, bus |-> 1, address |-> 2] }

\* Outcomes libusb reports to the completion callback.
Completions ==
    { [status |-> "LIBUSB_TRANSFER_NO_DEVICE", actual_length |-> 0],
      [status |-> "LIBUSB_TRANSFER_COMPLETED", actual_length |-> PacketLen],
      [status |-> "LIBUSB_TRANSFER_COMPLETED", actual_length |-> 8],
      [status |-> "LIBUSB_TRANSFER_TIMED_OUT", actual_length |-> 0],
      [status |-> "LIBUSB_TRANSFER_ERROR", actual_length |-> 0] }

\* The registry holds a record.
HasSdi == instances # <<>>

Init ==
    /\ priv = FALSE
    /\ instances = <<>>
    /\ status = SR_ST_INACTIVE
    /\ devhdl = FALSE
    /\ leaked = 0
    /\ limit_msec = 0
    /\ limit_samples = 0
    /\ end_time = 0
    /\ num_samples = 0
    /\ usbfd = FALSE
    /\ sources = <<>>
    /\ xfers = <<>>
    /\ wild = FALSE
    /\ feed = <<>>
    /\ now = 0
    /\ undef = FALSE

\* The transfers libusb still has in flight.
InFlight(xs) == { t \in 1..Len(xs) : xs[t].st = "inflight" }

\* Transfers in flight on the handle devhdl refers to.
OnHandle(xs) == { t \in InFlight(xs) : xs[t].hdl = "devhdl" }

\* libusb_close(devhdl): a transfer still in flight on the handle is either
\* dropped by libusb without a callback (drop), or stays with the event
\* handling, on a closed handle.
CloseHandle(xs, drop) ==
    [ t \in 1..Len(xs) |->
        IF xs[t].st = "inflight" /\ xs[t].hdl = "devhdl"
        THEN IF t \in drop
             THEN [xs[t] EXCEPT !.st = "orphaned", !.sdi = "-", !.hdl = "-"]
             ELSE [xs[t] EXCEPT !.hdl = "closed"]
        ELSE xs[t] ]

\* hw_dev_close on the record fields d = [status, devhdl, xfers].
dev_close(d, drop) ==
    IF ~d.devhdl
    THEN d
    ELSE [d EXCEPT !.xfers = CloseHandle(d.xfers, drop),
                   !.devhdl = FALSE,
                   !.status = SR_ST_INACTIVE]

DevRec == [status |-> status, devhdl |-> devhdl, xfers |-> xfers]

\* A stop that does not look at the status it finds.
StopAnyStatus(st) ==
    IF ~priv THEN st ELSE SR_ST_STOPPING

\* Status after hw_dev_acquisition_stop on a record with status st.
acquisition_stop(st) ==
    IF ~priv THEN st
    ELSE IF st # SR_ST_ACTIVE THEN st
    ELSE SR_ST_STOPPING

\* Return value of hw_dev_acquisition_stop.
acquisition_stop_ret(st) ==
    IF ~priv THEN SR_ERR
    ELSE IF st # SR_ST_ACTIVE THEN SR_ERR
    ELSE SR_OK

hw_init ==
    /\ ~undef
    /\ ~priv
    /\ \E ok \in BOOLEAN : priv' = ok
    /\ UNCHANGED <<instances, status, devhdl, leaked, limit_msec,
                   limit_samples, end_time, num_samples, usbfd, sources,
                   xfers, wild, feed, now, undef>>

\* sr_dev_inst_free: what still points to the record is left dangling.
StaleXfers(xs) ==
    [ t \in 1..Len(xs) |->
        IF xs[t].st = "inflight" THEN [xs[t] EXCEPT !.sdi = "stale"]
        ELSE xs[t] ]

StaleSources(srcs) == [ i \in 1..Len(srcs) |-> "stale" ]

\* The fields of a record sr_dev_inst_new and g_try_malloc0 just created,
\* which are also the values kept while there is no record.
FreshRecord ==
    /\ status' = SR_ST_INACTIVE
    /\ devhdl' = FALSE
    /\ leaked' = 0
    /\ limit_msec' = 0
    /\ limit_samples' = 0
    /\ end_time' = 0
    /\ num_samples' = 0
    /\ usbfd' = FALSE

\* The loop of clear_instances: every record is closed and freed.
FreeInstances(drop) ==
    IF HasSdi
    THEN /\ xfers' = StaleXfers(dev_close(DevRec, drop).xfers)
         /\ sources' = StaleSources(sources)
         /\ FreshRecord
    ELSE /\ drop = {}
         /\ UNCHANGED <<status, devhdl, leaked, limit_msec, limit_samples,
                        end_time, num_samples, usbfd, xfers, sources>>

clear_instances ==
    /\ ~undef
    /\ IF ~priv
       THEN UNCHANGED <<instances, status, devhdl, leaked, limit_msec,
                        limit_samples, end_time, num_samples, usbfd, xfers,
                        sources>>
       ELSE \E drop \in SUBSET OnHandle(xfers) :
              /\ FreeInstances(drop)
              /\ instances' = <<>>
    /\ UNCHANGED <<priv, wild, feed, now, undef>>

hw_cleanup ==
    /\ ~undef
    /\ IF ~priv
       THEN UNCHANGED <<priv, instances, status, devhdl, leaked, limit_msec,
                        limit_samples, end_time, num_samples, usbfd, xfers,
                        sources>>
       ELSE \E drop \in SUBSET OnHandle(xfers) :
              /\ FreeInstances(drop)
              /\ instances' = <<>>
              /\ priv' = FALSE
    /\ UNCHANGED <<wild, feed, now, undef>>

\* A filter that looks at the vendor id alone.
VendorOnly(devlist) ==
    { d \in devlist : ~(d.vid # VICTOR_VID) }

\* The devices of devlist hw_scan makes a record for.
Matches(devlist) ==
    { d \in devlist : ~(d.vid # VICTOR_VID \/ d.pid # VICTOR_PID) }

\* The registry hw_scan builds from devlist; an allocation may fail (oom).
Scanned(devlist, oom) ==
    IF Matches(devlist) = {} \/ oom
    THEN <<>>
    ELSE LET dev == CHOOSE d \in Matches(devlist) : TRUE
         IN << [bus |-> dev.bus, address |-> dev.address] >>

\* The registries a hw_scan call can build.
ScanResults ==
    { Scanned(devlist, oom) : devlist \in SUBSET UsbDevices,
                              oom \in BOOLEAN }

hw_scan ==
    /\ ~undef
    /\ IF ~priv
       THEN UNCHANGED <<instances, status, devhdl, leaked, limit_msec,
                        limit_samples, end_time, num_samples, usbfd, xfers,
                        sources>>
       ELSE \E drop \in SUBSET OnHandle(xfers), found \in ScanResults :
              /\ FreeInstances(drop)
              /\ instances' = found
    /\ UNCHANGED <<priv, wild, feed, now, undef>>

\* How libusb_kernel_driver_active / libusb_detach_kernel_driver end.
KernelDriver == {"inactive", "detached", "detach_failed"}

\* libusb_open overwrote devhdl: transfers on the old handle keep it.
LeakHandle(xs) ==
    [ t \in 1..Len(xs) |->
        IF xs[t].st = "inflight" /\ xs[t].hdl = "devhdl"
        THEN [xs[t] EXCEPT !.hdl = "leaked"]
        ELSE xs[t] ]

\* The loop of hw_dev_open finds the record's bus/address in devlist.
Found(devlist) ==
    \E dev \in devlist : ~(dev.bus # instances[1].bus
                           \/ dev.address # instances[1].address)

\* The ways a hw_dev_open call can go: the device is found in the list,
\* libusb_open succeeds, what the read of devlist[i] after
\* libusb_free_device_list yields (end_read: NULL), and whether detaching the
\* kernel driver or claiming the interface is refused.
OpenRuns ==
    { [found |-> Found(devlist), opened |-> opened, end_read |-> end_read,
       refused |-> (kd = "detach_failed" \/ ~claimed)] :
        devlist \in SUBSET UsbDevices, opened \in BOOLEAN,
        end_read \in BOOLEAN, kd \in KernelDriver, claimed \in BOOLEAN }

\* The return value of hw_dev_open for the run r.
hw_dev_open_ret(r) ==
    IF ~priv THEN SR_ERR
    ELSE IF r.found /\ ~r.opened THEN SR_ERR
    ELSE IF r.end_read THEN SR_ERR
    ELSE IF r.refused THEN SR_ERR
    ELSE SR_OK

\* The status hw_dev_open leaves for the run r.
hw_dev_open_status(r) ==
    IF hw_dev_open_ret(r) = SR_OK THEN SR_ST_ACTIVE ELSE status

\* The run goes on past the device list without a handle: libusb
\* dereferences NULL.
NullHandle(r) == ~r.found /\ ~r.end_read /\ ~devhdl

hw_dev_open ==
    /\ ~undef
    /\ HasSdi
    /\ IF ~priv
       THEN UNCHANGED <<status, devhdl, leaked, xfers>>
       ELSE \E r \in OpenRuns :
              IF r.found /\ ~r.opened
              THEN \* libusb_open failed
                   UNCHANGED <<status, devhdl, leaked, xfers>>
              ELSE
                   /\ (r.found /\ devhdl) => leaked < MaxLeaked
                   /\ leaked' = IF r.found /\ devhdl THEN leaked + 1
                                ELSE leaked
                   /\ xfers' = IF r.found /\ devhdl THEN LeakHandle(xfers)
                               ELSE xfers
                   /\ devhdl' = IF r.found THEN TRUE ELSE devhdl
                   /\ ~NullHandle(r)
                   /\ status' = hw_dev_open_status(r)
    /\ UNCHANGED <<priv, instances, limit_msec, limit_samples, end_time,
                   num_samples, usbfd, sources, wild, feed, now,
                   undef>>

hw_dev_close ==
    /\ ~undef
    /\ HasSdi
    /\ IF ~priv
       THEN UNCHANGED <<status, devhdl, xfers>>
       ELSE \E drop \in SUBSET OnHandle(xfers) :
              LET d == dev_close(DevRec, drop) IN
              /\ status' = d.status
              /\ devhdl' = d.devhdl
              /\ xfers' = d.xfers
    /\ UNCHANGED <<priv, instances, leaked, limit_msec, limit_samples,
                   end_time, num_samples, usbfd, sources, wild, feed, now, undef>>

\* The return value of hw_dev_config_set.
hw_dev_config_set_ret(hwcap) ==
    IF ~priv THEN SR_ERR
    ELSE IF status # SR_ST_ACTIVE THEN SR_ERR
    ELSE IF hwcap \in {SR_HWCAP_LIMIT_MSEC, SR_HWCAP_LIMIT_SAMPLES} THEN SR_OK
    ELSE SR_ERR_ARG

\* A config-set that does not look at the status.
ConfigAnyStatus(hwcap, value) ==
    LET old == [limit_msec |-> limit_msec, limit_samples |-> limit_samples,
                end_time |-> end_time]
    IN
    IF hwcap = SR_HWCAP_LIMIT_MSEC
    THEN [old EXCEPT !.limit_msec = value, !.end_time = now + value]
    ELSE IF hwcap = SR_HWCAP_LIMIT_SAMPLES
    THEN [old EXCEPT !.limit_samples = value]
    ELSE old

\* The limits [limit_msec, limit_samples, end_time] after
\* hw_dev_config_set(hwcap, value).
ConfigSet(hwcap, value) ==
    LET old == [limit_msec |-> limit_msec, limit_samples |-> limit_samples,
                end_time |-> end_time]
    IN
    IF ~priv \/ status # SR_ST_ACTIVE THEN old
    ELSE IF hwcap = SR_HWCAP_LIMIT_MSEC
    THEN [old EXCEPT !.limit_msec = value, !.end_time = now + value]
    ELSE IF hwcap = SR_HWCAP_LIMIT_SAMPLES
    THEN [old EXCEPT !.limit_samples = value]
    ELSE old

hw_dev_config_set ==
    /\ ~undef
    /\ HasSdi
    /\ \E hwcap \in HwCaps, value \in 0..MaxLimit :
        LET c == ConfigSet(hwcap, value) IN
        /\ limit_msec' = c.limit_msec
        /\ limit_samples' = c.limit_samples
        /\ end_time' = c.end_time
    /\ UNCHANGED <<priv, instances, status, devhdl, leaked, num_samples,
                   usbfd, sources, xfers, wild, feed, now, undef>>

\* The monotonic clock advances.
Elapse ==
    /\ ~undef
    /\ now < MaxTime
    /\ now' = now + 1
    /\ UNCHANGED <<priv, instances, status, devhdl, leaked, limit_msec,
                   limit_samples, end_time, num_samples, usbfd, sources,
                   xfers, wild, feed, undef>>

\* g_free(p) where p is the receive buffer of transfer ptr, or (ptr = 0)
\* not the receive buffer of any transfer still allocated.
FreeBuffer(s, ptr) ==
    IF ptr = 0
    THEN [s EXCEPT !.wild = TRUE]
    ELSE [s EXCEPT !.xfers[ptr].frees = @ + 1]

\* libusb_free_transfer(t); g_free(t->buffer): the buffer pointer is read
\* from the transfer after it was freed, so the read yields the buffer
\* (ptr = t), the buffer of another transfer, or anything else (0).
BufferReads(s, t) == {0, t} \cup InFlight(s.xfers)

\* The transfer is gone: its user_data and dev_handle no longer exist.
Released(x) == [x EXCEPT !.st = "released", !.sdi = "-", !.hdl = "-"]

FreeTransfer(s, t) ==
    { FreeBuffer([s EXCEPT !.xfers[t] = Released(@)], ptr) :
        ptr \in BufferReads(s, t) }

\* What one receive_transfer call did: the transfer, its outcome, the
\* record's status on entry and on return, the counter on return, and
\* whether the transfer was submitted again.
Done(t, oc, entry, exit, count, resub) ==
    [xfer |-> t, status |-> oc.status, actual_length |-> oc.actual_length,
     entry |-> entry, exit |-> exit, count |-> count, resubmitted |-> resub]

\* A counter that takes a packet of any length for a sample.
CountEveryPacket(n, oc) ==
    IF oc.status = "LIBUSB_TRANSFER_COMPLETED" THEN n + 1 ELSE n

\* The sample counter after a completion with outcome oc.
CountSample(n, oc) ==
    IF oc.status = "LIBUSB_TRANSFER_COMPLETED"
       /\ oc.actual_length = PacketLen
    THEN n + 1
    ELSE n

\* An outcome handling that does not know the unplugged device.
IgnoreNoDevice(st, n, oc) ==
    IF oc.status = "LIBUSB_TRANSFER_COMPLETED"
       /\ oc.actual_length = PacketLen
       /\ limit_samples # 0 /\ n >= limit_samples
    THEN acquisition_stop(st)
    ELSE st

\* The status after the outcome of a completion has been looked at, before
\* the resubmission: st on entry, n the counter after CountSample.
OutcomeStatus(st, n, oc) ==
    IF oc.status = "LIBUSB_TRANSFER_NO_DEVICE"
    THEN acquisition_stop(st)
    ELSE IF oc.status = "LIBUSB_TRANSFER_COMPLETED"
            /\ oc.actual_length = PacketLen
            /\ limit_samples # 0 /\ n >= limit_samples
    THEN acquisition_stop(st)
    ELSE st

\* receive_transfer(t) with outcome oc on the state s = [status,
\* num_samples, xfers, wild, disp, undef]: the set of states it may leave.
\* disp lists the completions handled so far in this handle_events call.
receive_transfer(s, t, oc) ==
    IF s.xfers[t].sdi = "stale"
    THEN { [s EXCEPT !.undef = TRUE] }
    ELSE
    LET n == CountSample(s.num_samples, oc)
        st == OutcomeStatus(s.status, n, oc)
        s1 == [s EXCEPT !.num_samples = n, !.status = st]
    IN
    IF st = SR_ST_ACTIVE
    THEN \* libusb_submit_transfer succeeds, or fails
         { [s1 EXCEPT !.disp = Append(@, Done(t, oc, s.status, st, n, TRUE))] }
         \cup
         { [f EXCEPT !.status = acquisition_stop(st),
                     !.disp = Append(@, Done(t, oc, s.status,
                                             acquisition_stop(st), n, FALSE))] :
             f \in FreeTransfer(s1, t) }
    ELSE { [f EXCEPT !.disp = Append(@, Done(t, oc, s.status, st, n, FALSE))] :
             f \in FreeTransfer(s1, t) }

\* The outcomes the model lets a transfer complete with (the counter is
\* capped).
Outcomes(s) ==
    { oc \in Completions : CountSample(s.num_samples, oc) <= MaxSamples }

\* libusb_handle_events_timeout_completed: the callbacks of the transfers
\* t..Len(xfers) that have completed are run, each at most once.
RECURSIVE handle_usb_events(_, _)
handle_usb_events(s, t) ==
    IF t > Len(s.xfers) \/ s.undef
    THEN {s}
    ELSE IF s.xfers[t].st # "inflight"
    THEN handle_usb_events(s, t + 1)
    ELSE handle_usb_events(s, t + 1)
         \cup
         UNION { handle_usb_events(r, t + 1) :
                   r \in UNION { receive_transfer(s, t, oc) :
                                   oc \in Outcomes(s) } }

\* sr_source_remove(fd): the first source registered for the fd goes.
source_remove(srcs) == IF srcs = <<>> THEN srcs ELSE Tail(srcs)

\* handle_events up to the libusb call, with the transfers in drop lost in
\* libusb_close: the record fields and what the session sees.
StopHandling(drop) ==
    LET st1 == IF limit_msec # 0 /\ now > end_time
               THEN acquisition_stop(status)
               ELSE status
        stopping == st1 = SR_ST_STOPPING
        d == IF stopping
             THEN dev_close([DevRec EXCEPT !.status = st1], drop)
             ELSE [DevRec EXCEPT !.status = st1]
    IN [status |-> d.status, devhdl |-> d.devhdl, xfers |-> d.xfers,
        stopping |-> stopping,
        sources |-> IF stopping /\ usbfd THEN source_remove(sources)
                    ELSE sources,
        feed |-> IF stopping THEN Append(feed, "SR_DF_END") ELSE feed]

\* The transfers a close in this handle_events call may catch in flight.
Droppable ==
    IF (IF limit_msec # 0 /\ now > end_time
        THEN acquisition_stop(status) ELSE status) = SR_ST_STOPPING
    THEN OnHandle(xfers)
    ELSE {}

\* The state the completion callbacks start from.
EventState(h) ==
    [status |-> h.status, num_samples |-> num_samples, xfers |-> h.xfers,
     wild |-> wild, disp |-> <<>>, undef |-> FALSE]

handle_events ==
    /\ ~undef
    /\ \E i \in 1..Len(sources) :
        IF sources[i] = "stale"
        THEN \* cb_data points to a record clear_instances has freed
             /\ undef' = TRUE
             /\ UNCHANGED <<status, devhdl, num_samples, sources, xfers,
                            wild, feed>>
        ELSE
        \E drop \in SUBSET Droppable :
          LET h == StopHandling(drop) IN
          /\ sources' = h.sources
          /\ feed' = h.feed
          /\ devhdl' = h.devhdl
          /\ \E s \in handle_usb_events(EventState(h), 1) :
               /\ status' = s.status
               /\ num_samples' = s.num_samples
               /\ xfers' = s.xfers
               /\ wild' = s.wild
               /\ undef' = s.undef
    /\ UNCHANGED <<priv, instances, leaked, limit_msec, limit_samples,
                   end_time, usbfd, now>>

\* The transfer hw_dev_acquisition_start allocates and submits; when
\* libusb_submit_transfer fails it frees the transfer and the buffer.
Submit(submitted) ==
    IF submitted
    THEN [st |-> "inflight", sdi |-> "live", hdl |-> "devhdl", frees |-> 0]
    ELSE [st |-> "failed", sdi |-> "-", hdl |-> "-", frees |-> 1]

\* The return value of hw_dev_acquisition_start.
hw_dev_acquisition_start_ret(submitted) ==
    IF ~priv THEN SR_ERR
    ELSE IF ~submitted THEN SR_ERR
    ELSE SR_OK

hw_dev_acquisition_start ==
    /\ ~undef
    /\ HasSdi
    /\ IF ~priv
       THEN UNCHANGED <<usbfd, sources, xfers, feed>>
       ELSE \* libusb dereferences the handle of the transfer
            /\ devhdl
            /\ Len(xfers) < MaxXfers
            /\ feed' = feed \o <<"SR_DF_HEADER", "SR_DF_META_ANALOG">>
            /\ sources' = Append(sources, "live")
            /\ usbfd' = TRUE
            /\ \E submitted \in BOOLEAN :
                xfers' = Append(xfers, Submit(submitted))
    /\ UNCHANGED <<priv, instances, status, devhdl, leaked, limit_msec,
                   limit_samples, end_time, num_samples, wild, now, undef>>

hw_dev_acquisition_stop ==
    /\ ~undef
    /\ HasSdi
    /\ status' = acquisition_stop(status)
    /\ UNCHANGED <<priv, instances, devhdl, leaked, limit_msec,
                   limit_samples, end_time, num_samples, usbfd, sources,
                   xfers, wild, feed, now, undef>>

\* Every outcome of one handle_events call on the record, from here.
EventOutcomes ==
    UNION { handle_usb_events(EventState(StopHandling(drop)), 1) :
              drop \in SUBSET Droppable }

Next ==
    \/ hw_init
    \/ hw_cleanup
    \/ clear_instances
    \/ hw_scan
    \/ hw_dev_open
    \/ hw_dev_close
    \/ hw_dev_config_set
    \/ hw_dev_acquisition_start
    \/ hw_dev_acquisition_stop
    \/ handle_events
    \/ Elapse

Spec == Init /\ [][Next]_vars

\* A host that keeps to the protocol of the driver API: one scan, open on a
\* closed record, close and configuration when no acquisition runs, start on
\* an Active record without an acquisition.
scan_once == ~HasSdi /\ hw_scan
open_closed == ~devhdl /\ sources = <<>> /\ hw_dev_open
close_idle == sources = <<>> /\ hw_dev_close
config_idle == sources = <<>> /\ hw_dev_config_set
start_once ==
    /\ status = SR_ST_ACTIVE
    /\ sources = <<>>
    /\ hw_dev_acquisition_start

OrderlyNext ==
    \/ hw_init
    \/ scan_once
    \/ open_closed
    \/ close_idle
    \/ config_idle
    \/ start_once
    \/ hw_dev_acquisition_stop
    \/ handle_events
    \/ Elapse

OrderlySpec == Init /\ [][OrderlyNext]_vars

\* The session loop calls handle_events as long as a source is registered.
FairOrderlySpec == OrderlySpec /\ WF_vars(handle_events)

(***************************************************************************)
(* Properties                                                              *)
(***************************************************************************)

\* An acquisition is under way: the last start call submitted its transfer
\* and the record has not gone back to Inactive.
Acquiring ==
    /\ status # SR_ST_INACTIVE
    /\ sources # <<>>
    /\ xfers # <<>>
    /\ xfers[Len(xfers)].st # "failed"

\* C1: from the start call that submitted the first transfer until the
\* record is Inactive again exactly one transfer is in flight, and in no
\* state is more than one in flight.
C1_OneInFlight ==
    ~undef =>
        /\ Cardinality(InFlight(xfers)) <= 1
        /\ Acquiring => Cardinality(InFlight(xfers)) = 1

\* C2: the receive buffer of a transfer is freed at most once and never
\* while the transfer is in flight, and g_free is handed nothing but the
\* buffer of the transfer whose terminal completion (or failed submission)
\* makes the call.
C2_BufferFreedOnce ==
    /\ ~wild
    /\ \A t \in 1..Len(xfers) :
         /\ xfers[t].frees <= 1
         /\ xfers[t].st = "inflight" => xfers[t].frees = 0

\* The record is idle after an acquisition: Inactive, handle closed, no
\* source registered, no transfer left allocated, SR_DF_END sent last.
C3_Idle ==
    /\ status = SR_ST_INACTIVE
    /\ ~devhdl
    /\ sources = <<>>
    /\ \A t \in 1..Len(xfers) : xfers[t].st \in {"released", "failed"}
    /\ feed # <<>>
    /\ feed[Len(feed)] = "SR_DF_END"

\* C3: once a stop trigger has set the status to Stopping and handle_events
\* keeps being called, the record eventually is idle: Inactive, closed,
\* sources removed, no transfer outstanding, SR_DF_END sent.
C3_StopLeadsToIdle ==
    (status = SR_ST_STOPPING /\ sources # <<>>) ~> C3_Idle

\* C4: the feed of each acquisition is SR_DF_HEADER once, SR_DF_META_ANALOG
\* once, then SR_DF_END once: no second header before the end, no end
\* without a header before it.
C4_FeedOrdered ==
    \A i \in 1..Len(feed) :
        feed[i] = CASE i % 3 = 1 -> "SR_DF_HEADER"
                    [] i % 3 = 2 -> "SR_DF_META_ANALOG"
                    [] OTHER -> "SR_DF_END"

\* C5: with a sample limit set, the counter of a running acquisition does
\* not exceed the limit while no stop has been triggered (the status is
\* still Active).
C5_WithinLimit ==
    (~undef /\ Acquiring /\ status = SR_ST_ACTIVE /\ limit_samples # 0)
        => num_samples <= limit_samples

\* C6: with a time limit set, the deadline handle_events compares against
\* is the time of the start call plus the limit.
C6_DeadlineFromStart ==
    [][ ( /\ hw_dev_acquisition_start
          /\ xfers' # xfers
          /\ xfers'[Len(xfers')].st = "inflight"
          /\ limit_msec # 0 )
        => end_time' = now + limit_msec ]_vars

\* C7: a record whose status is Inactive has no open handle, and no handle
\* opened for the record is left open beside the one it refers to.
C7_HandleMatchesStatus ==
    (~undef /\ HasSdi) =>
        /\ status = SR_ST_INACTIVE => ~devhdl
        /\ leaked = 0

\* C8: hw_dev_acquisition_stop changes the status and nothing else; it sets
\* Stopping and returns SR_OK on an Active record, and returns SR_ERR and
\* changes nothing on a record that is Inactive or Stopping.
C8_StopSetsStatusOnly ==
    /\ [] ( (~undef /\ HasSdi) =>
              IF status = SR_ST_ACTIVE
              THEN /\ acquisition_stop(status) = SR_ST_STOPPING
                   /\ acquisition_stop_ret(status) = SR_OK
              ELSE /\ acquisition_stop(status) = status
                   /\ acquisition_stop_ret(status) = SR_ERR )
    /\ [][ hw_dev_acquisition_stop =>
              /\ status = SR_ST_ACTIVE
              /\ status' = SR_ST_STOPPING
              /\ UNCHANGED <<priv, instances, devhdl, leaked, limit_msec,
                             limit_samples, end_time, num_samples, usbfd,
                             sources, xfers, wild, feed, now, undef>> ]_vars

\* A stop request has acted on a running acquisition: the status is
\* Stopping while the transfer is in flight on the open handle and the
\* source is registered.
C8_Witness ==
    /\ ~undef
    /\ status = SR_ST_STOPPING
    /\ devhdl
    /\ sources = <<"live">>
    /\ OnHandle(xfers) # {}
    /\ num_samples = 1
    /\ limit_samples = 0

\* The completion is a full packet.
FullPacket(e) ==
    e.status = "LIBUSB_TRANSFER_COMPLETED" /\ e.actual_length = 14

\* C9: the sample counter of a record never decreases; the completion of a
\* transfer with a full 14-byte packet adds exactly 1, every other
\* completion adds nothing, a handle_events call changes the counter only
\* through the completions it runs, and hw_dev_config_set and
\* hw_dev_acquisition_stop leave the counter alone.
C9_CounterSteps ==
    /\ [] ( ~undef =>
              \A t \in InFlight(xfers), oc \in Completions :
                xfers[t].sdi = "live" =>
                  \A r \in receive_transfer(EventState(DevRec), t, oc) :
                    /\ r.num_samples =
                         num_samples + (IF FullPacket(oc) THEN 1 ELSE 0)
                    /\ r.disp[1].count = r.num_samples )
    /\ [] ( (~undef /\ sources # <<>>) =>
              \A s \in EventOutcomes :
                /\ s.num_samples >= num_samples
                /\ s.disp = <<>> => s.num_samples = num_samples )
    /\ [][ /\ num_samples' < num_samples =>
                  (hw_scan \/ clear_instances \/ hw_cleanup)
           /\ num_samples' # num_samples =>
                  ~(hw_dev_config_set \/ hw_dev_acquisition_stop) ]_vars

\* Two full packets were counted and the acquisition goes on.
C9_Witness ==
    /\ ~undef
    /\ num_samples = 2
    /\ status = SR_ST_ACTIVE
    /\ sources = <<"live">>
    /\ OnHandle(xfers) # {}

\* C10: a start call on a record with a transfer outstanding fails: it
\* allocates no transfer, sends nothing to the feed and registers no
\* source.
C10_StartRefused ==
    [][ (hw_dev_acquisition_start /\ InFlight(xfers) # {})
        => UNCHANGED <<xfers, feed, sources>> ]_vars

\* C11: a hw_dev_open call on an Inactive record that does not find the
\* bus/address in the device list, cannot open the handle, or is refused
\* the detach or the claim returns an error and leaves the record
\* Inactive; the record becomes Active only when the call returns SR_OK.
C11_FailedOpenStaysInactive ==
    (~undef /\ HasSdi /\ status = SR_ST_INACTIVE) =>
        \A r \in OpenRuns :
            ~NullHandle(r) =>
                /\ (~r.found \/ ~r.opened \/ r.refused) =>
                       /\ hw_dev_open_ret(r) # SR_OK
                       /\ hw_dev_open_status(r) = SR_ST_INACTIVE
                /\ hw_dev_open_status(r) = SR_ST_ACTIVE =>
                       hw_dev_open_ret(r) = SR_OK

\* The bus/address pairs of the meters in devlist.
Meters(devlist) ==
    { [bus |-> d.bus, address |-> d.address] :
        d \in { m \in devlist : m.vid = VICTOR_VID /\ m.pid = VICTOR_PID } }

\* The registry reg holds exactly one record for each element of recs.
HoldsExactly(reg, recs) ==
    /\ Len(reg) = Cardinality(recs)
    /\ { reg[i] : i \in 1..Len(reg) } = recs

C13_ConfigOnlyWhileActive ==
    /\ [] ( (~undef /\ HasSdi) =>
              \A hwcap \in HwCaps, value \in 0..MaxLimit :
                LET c == ConfigSet(hwcap, value)
                    ret == hw_dev_config_set_ret(hwcap)
                IN
                IF status = SR_ST_ACTIVE /\ hwcap = SR_HWCAP_LIMIT_MSEC
                THEN /\ ret = SR_OK
                     /\ c.limit_msec = value
                     /\ c.end_time = now + value
                     /\ c.limit_samples = limit_samples
                ELSE IF status = SR_ST_ACTIVE
                        /\ hwcap = SR_HWCAP_LIMIT_SAMPLES
                THEN /\ ret = SR_OK
                     /\ c.limit_samples = value
                     /\ c.limit_msec = limit_msec
                     /\ c.end_time = end_time
                ELSE /\ ret # SR_OK
                     /\ c.limit_msec = limit_msec
                     /\ c.limit_samples = limit_samples
                     /\ c.end_time = end_time )
    /\ [][ hw_dev_config_set =>
              /\ status = SR_ST_ACTIVE
              /\ UNCHANGED <<priv, instances, status, devhdl, leaked,
                             num_samples, usbfd, sources, xfers, wild, feed,
                             now, undef>> ]_vars

\* Both limits were set on the Active record, the time limit at time 1.
C13_Witness ==
    /\ ~undef
    /\ status = SR_ST_ACTIVE
    /\ limit_samples = 1
    /\ limit_msec = 1
    /\ now = 1
    /\ end_time = 2

\* C14: the start call that submits the transfer of an acquisition leaves
\* the sample counter at zero, so that the first completion of every
\* acquisition counts from 0.
C14_CounterResetAtStart ==
    [][ ( /\ hw_dev_acquisition_start
          /\ xfers' # xfers
          /\ xfers'[Len(xfers')].st = "inflight" )
        => num_samples' = 0 ]_vars

\* C15: the handle is not closed while a transfer is in flight on it: no
\* transfer is in flight on a closed handle, and none was dropped, in
\* flight, by the close.
C15_NoTransferOnClosedHandle ==
    ~undef =>
        \A t \in 1..Len(xfers) :
            /\ xfers[t].st # "orphaned"
            /\ xfers[t].st = "inflight" => xfers[t].hdl # "closed"

\* C16: when a stop was requested with the transfer in flight and the
\* handle_events call that handles the stop also runs the completion of
\* that transfer, then for every outcome the transfer is not submitted
\* again and its buffer, and nothing else, is freed, once.
C16_StopAndCompletionInOneCall ==
    ( /\ ~undef
      /\ status = SR_ST_STOPPING
      /\ sources = <<"live">>
      /\ ~wild
      /\ \A t \in InFlight(xfers) : xfers[t].frees = 0 )
    => \A s \in EventOutcomes :
         \A k \in 1..Len(s.disp) :
            /\ ~s.disp[k].resubmitted
            /\ s.xfers[s.disp[k].xfer].st = "released"
            /\ s.xfers[s.disp[k].xfer].frees = 1
            /\ ~s.wild

\* The outcome libusb reports for a transfer whose device was unplugged.
NoDevice == [status |-> "LIBUSB_TRANSFER_NO_DEVICE", actual_length |-> 0]

\* C17: the completion of a transfer with LIBUSB_TRANSFER_NO_DEVICE on an
\* Active record sets the status to Stopping in that completion and does
\* not submit the transfer again; the next handle_events call on a
\* Stopping record sends SR_DF_END, closes the handle and leaves the
\* record Inactive.
C17_NoDeviceStops ==
    /\ [] ( (~undef /\ status = SR_ST_ACTIVE) =>
              \A t \in InFlight(xfers) :
                xfers[t].sdi = "live" =>
                  \A r \in receive_transfer(EventState(DevRec), t, NoDevice) :
                    /\ r.status = SR_ST_STOPPING
                    /\ ~r.disp[1].resubmitted
                    /\ r.disp[1].exit = SR_ST_STOPPING
                    /\ r.xfers[t].st = "released" )
    /\ [] ( ( /\ ~undef
              /\ status = SR_ST_STOPPING
              /\ \E i \in 1..Len(sources) : sources[i] = "live" ) =>
              /\ \A drop \in SUBSET Droppable :
                   LET h == StopHandling(drop) IN
                   /\ h.feed = Append(feed, "SR_DF_END")
                   /\ ~h.devhdl
                   /\ h.status = SR_ST_INACTIVE
                   /\ h.sources = Tail(sources)
              /\ \A s \in EventOutcomes :
                   ~s.undef => s.status = SR_ST_INACTIVE )

\* The acquisition without limits has ended after its transfer was
\* released in a completion: SR_DF_END sent, record Inactive and closed,
\* source removed.
C17_Witness ==
    /\ ~undef
    /\ status = SR_ST_INACTIVE
    /\ ~devhdl
    /\ sources = <<>>
    /\ limit_msec = 0
    /\ limit_samples = 0
    /\ num_samples = 0
    /\ feed = <<"SR_DF_HEADER", "SR_DF_META_ANALOG", "SR_DF_END">>
    /\ xfers = <<[st |-> "released", sdi |-> "-", hdl |-> "-", frees |-> 1]>>

\* C18: when libusb_submit_transfer fails in the completion of a transfer
\* of an Active record, the completion leaves the record Stopping, the
\* transfer released and not in flight, and has freed the buffer of the
\* transfer, and nothing else, once.
C18_FailedResubmitStops ==
    ( /\ ~undef
      /\ status = SR_ST_ACTIVE
      /\ ~wild
      /\ \A t \in InFlight(xfers) : xfers[t].frees = 0 )
    => \A t \in InFlight(xfers), oc \in Completions :
         xfers[t].sdi = "live" =>
           \A r \in receive_transfer(EventState(DevRec), t, oc) :
             ( /\ OutcomeStatus(status, CountSample(num_samples, oc), oc)
                     = SR_ST_ACTIVE
               /\ ~r.disp[1].resubmitted )
             => /\ r.status = SR_ST_STOPPING
                /\ r.xfers[t].st = "released"
                /\ r.xfers[t].frees = 1
                /\ \A u \in InFlight(r.xfers) : r.xfers[u].frees = 0
                /\ ~r.wild

\* C19: a start call that fails because its transfer could not be
\* submitted leaves nothing of an acquisition behind: no source more than
\* before, no transfer more in flight, the buffer freed once, and no
\* SR_DF_HEADER in the feed without its SR_DF_END.
C19_FailedStartLeavesNothing ==
    [][ ( /\ hw_dev_acquisition_start
          /\ xfers' # xfers
          /\ xfers'[Len(xfers')].st = "failed" )
        => /\ sources' = sources
           /\ InFlight(xfers') = InFlight(xfers)
           /\ xfers'[Len(xfers')].frees = 1
           /\ \/ feed' = feed
              \/ feed'[Len(feed')] = "SR_DF_END" ]_vars

\* C20: no registered source and no transfer in flight refers to a record
\* that hw_scan, clear_instances or hw_cleanup has freed, and no
\* handle_events call or completion ever runs on a freed record.
C20_NoDanglingRecord ==
    /\ ~undef
    /\ \A i \in 1..Len(sources) : sources[i] # "stale"
    /\ \A t \in InFlight(xfers) : xfers[t].sdi # "stale"

====
